---- MODULE Spec2Model ----
(***************************************************************************)
(* Model of the planning/execution loop of the timesheet assistant client  *)
(* (src/client/client.py): the JSON action parser parse_json_object and    *)
(* the interactive loop run_agent.                                         *)
(*                                                                         *)
(* Strings produced by the oracle are sequences of lexical tokens: the     *)
(* structural characters of JSON, string literals, a number, null, a word  *)
(* of prose ("w") and white space (" ").  Python values are records        *)
(* tagged by their type in field t.                                        *)
(***************************************************************************)
EXTENDS Integers, Sequences, FiniteSets, TLC

\* ------------------------------------------------------------------------
\* Python values
\* ------------------------------------------------------------------------
PyStr(s) == [t |-> "str", s |-> s]
PyNum(n) == [t |-> "num", n |-> n]
PyNone == [t |-> "none"]
PyList(items) == [t |-> "list", items |-> items]
PyDict(m) == [t |-> "dict", m |-> m]

EmptyMap == [k \in {} |-> PyNone]

\* dict[key] = val  (a repeated key keeps the last value, as json.loads does)
MapPut(m, key, val) ==
  [k \in (DOMAIN m) \cup {key} |-> IF k = key THEN val ELSE m[k]]

\* ------------------------------------------------------------------------
\* Lexical tokens
\* ------------------------------------------------------------------------
StrLits == {"action", "tool", "TOOL", "final", "dance", "tool_name",
            "arguments", "content", "A", "B", "a", "zzz", "done", "x", ""}
NumToks == {"1"}
WhiteSpace == {" "}

\* ------------------------------------------------------------------------
\* json.loads
\* ------------------------------------------------------------------------
Fail == [ok |-> FALSE, val |-> PyNone, pos |-> 0]
Ok(v, p) == [ok |-> TRUE, val |-> v, pos |-> p]

Tok(s, i) == IF i >= 1 /\ i <= Len(s) THEN s[i] ELSE "<eof>"

RECURSIVE ParseValue(_, _)
RECURSIVE ParseElems(_, _, _)
RECURSIVE ParseMembers(_, _, _)

\* the elements of an array, s[i] being the first token of an element
ParseElems(s, i, acc) ==
  LET r == ParseValue(s, i) IN
  IF ~r.ok THEN Fail
  ELSE IF Tok(s, r.pos) = "," THEN ParseElems(s, r.pos + 1, Append(acc, r.val))
  ELSE IF Tok(s, r.pos) = "]" THEN Ok(PyList(Append(acc, r.val)), r.pos + 1)
  ELSE Fail

\* the members of an object, s[i] being the first token of a key
ParseMembers(s, i, m) ==
  IF ~(Tok(s, i) \in StrLits /\ Tok(s, i + 1) = ":") THEN Fail
  ELSE LET r == ParseValue(s, i + 2) IN
       IF ~r.ok THEN Fail
       ELSE IF Tok(s, r.pos) = ","
              THEN ParseMembers(s, r.pos + 1, MapPut(m, s[i], r.val))
       ELSE IF Tok(s, r.pos) = "}"
              THEN Ok(PyDict(MapPut(m, s[i], r.val)), r.pos + 1)
       ELSE Fail

ParseValue(s, i) ==
  LET c == Tok(s, i) IN
  IF c \in StrLits THEN Ok(PyStr(c), i + 1)
  ELSE IF c \in NumToks THEN Ok(PyNum(1), i + 1)
  ELSE IF c = "null" THEN Ok(PyNone, i + 1)
  ELSE IF c = "[" THEN
    IF Tok(s, i + 1) = "]" THEN Ok(PyList(<<>>), i + 2)
    ELSE ParseElems(s, i + 1, <<>>)
  ELSE IF c = "{" THEN
    IF Tok(s, i + 1) = "}" THEN Ok(PyDict(EmptyMap), i + 2)
    ELSE ParseMembers(s, i + 1, EmptyMap)
  ELSE Fail

NotWhite(c) == c \notin WhiteSpace

\* json.loads(s): one JSON value, white space around and between the tokens
\* skipped, nothing after it
JsonLoads(s) ==
  LET u == SelectSeq(s, NotWhite)
      r == ParseValue(u, 1)
  IN IF r.ok /\ r.pos = Len(u) + 1 THEN Ok(r.val, r.pos) ELSE Fail

\* ------------------------------------------------------------------------
\* parse_json_object
\* ------------------------------------------------------------------------
\* str.find / str.rfind: 0-based index, -1 when absent
Find(s, c) ==
  IF \E i \in 1..Len(s) : s[i] = c
    THEN (CHOOSE i \in 1..Len(s) : s[i] = c /\ \A j \in 1..(i - 1) : s[j] # c) - 1
    ELSE -1

RFind(s, c) ==
  IF \E i \in 1..Len(s) : s[i] = c
    THEN (CHOOSE i \in 1..Len(s) : s[i] = c /\ \A j \in (i + 1)..Len(s) : s[j] # c) - 1
    ELSE -1

\* s[start : end + 1]
Slice(s, start, end) == SubSeq(s, start + 1, end + 1)

Raised == [raised |-> TRUE, val |-> PyNone]
Returned(v) == [raised |-> FALSE, val |-> v]

parse_json_object(s) ==
  LET whole == JsonLoads(s) IN
  IF whole.ok THEN Returned(whole.val)
  ELSE LET start == Find(s, "{")
           end == RFind(s, "}")
       IN IF start # -1 /\ end # -1 /\ end > start
            THEN LET inner == JsonLoads(Slice(s, start, end)) IN
                 IF inner.ok THEN Returned(inner.val) ELSE Raised
            ELSE Raised

\* ------------------------------------------------------------------------
\* Python helpers used by run_agent
\* ------------------------------------------------------------------------
\* str.lower() on the strings of the model
Lower(s) ==
  CASE s = "TOOL" -> "tool"
    [] s = "None" -> "none"
    [] s = "A" -> "a"
    [] s = "B" -> "b"
    [] s = "Salir" -> "salir"
    [] s = "EXIT" -> "exit"
    [] OTHER -> s

\* str.strip() on the lines of the model
Strip(s) ==
  CASE s = " " -> ""
    [] s = " i1 " -> "i1"
    [] OTHER -> s

\* str(v)
PyStrOf(v) ==
  CASE v.t = "str" -> v.s
    [] v.t = "none" -> "None"
    [] v.t = "num" -> "1"
    [] v.t = "list" -> "[..]"
    [] v.t = "dict" -> "{..}"

\* bool(v)
Truthy(v) ==
  CASE v.t = "str" -> v.s # ""
    [] v.t = "none" -> FALSE
    [] v.t = "num" -> v.n # 0
    [] v.t = "list" -> Len(v.items) > 0
    [] v.t = "dict" -> DOMAIN v.m # {}

\* obj.get(key, default) on a dict
Get(obj, key, default) == IF key \in DOMAIN obj.m THEN obj.m[key] ELSE default

\* a or b
PyOr(a, b) == IF Truthy(a) THEN a ELSE b

\* hash(v) is defined
Hashable(v) == v.t \notin {"list", "dict"}

\* ------------------------------------------------------------------------
\* The environment: the user's lines, the oracle's completions, the remote
\* operations
\* ------------------------------------------------------------------------
MaxSteps == 6
MaxParts == 1

ToolNames == {"A", "B"}
Inputs == {"", " ", "exit", "Salir", "i1", " i1 ", "i2"}
ExitWords == {"salir", "exit", "quit"}

RawToolA == <<"{", "action", ":", "tool", ",", "tool_name", ":", "A", ",",
              "arguments", ":", "{", "x", ":", "1", "}", "}">>
RawToolB == <<"w", " ", "{", "action", ":", "TOOL", ",", "tool_name", ":", "B",
              ",", "arguments", ":", "null", "}", " ", "w">>
RawFinalDone == <<"{", "action", ":", "final", ",", "content", ":", "done", "}">>
RawFinalEmpty == <<"{", "action", ":", "final", ",", "content", ":", "", "}">>
RawUnknownTool == <<"{", "action", ":", "tool", ",", "tool_name", ":", "zzz", "}">>
RawCloseTool == <<"{", "action", ":", "tool", ",", "tool_name", ":", "a", "}">>
RawNoToolName == <<"{", "action", ":", "tool", "}">>
RawListToolName == <<"{", "action", ":", "tool", ",", "tool_name", ":", "[", "A", "]", "}">>
RawDance == <<"{", "action", ":", "dance", "}">>
RawEmptyObject == <<"{", "}">>
RawList == <<"[", "]">>
RawProse == <<"w", " ", "w">>
RawBadBraces == <<"w", "{", "w", "}">>

Completions == {RawToolA, RawToolB, RawFinalDone, RawFinalEmpty, RawUnknownTool,
                RawCloseTool, RawNoToolName, RawListToolName, RawDance, RawEmptyObject,
                RawList, RawProse, RawBadBraces}

\* obj = parse_json_object(raw), for each completion of the model
Parsed == [raw \in Completions |-> parse_json_object(raw)]

TextPart == [type |-> "text", text |-> "r1", data |-> "none"]
Parts == {TextPart}
ErrorMessages == {"boom"}

RECURSIVE SeqsUpTo(_, _)
SeqsUpTo(S, n) ==
  IF n = 0 THEN {<<>>}
  ELSE LET shorter == SeqsUpTo(S, n - 1) IN
       shorter \cup {Append(q, e) : q \in {r \in shorter : Len(r) = n - 1}, e \in S}

\* what session.call_tool does: it returns a result carrying content parts,
\* or it raises
Outcomes ==
  {[ok |-> TRUE, content |-> c, msg |-> ""] : c \in SeqsUpTo(Parts, MaxParts)}
  \cup {[ok |-> FALSE, content |-> <<>>, msg |-> m] : m \in ErrorMessages}

\* ------------------------------------------------------------------------
\* The server's strings, character by character (src/server/db_utils.py)
\* ------------------------------------------------------------------------
Digits == <<"0", "1", "2", "3", "4", "5", "6", "7", "8", "9">>

Min(a, b) == IF a <= b THEN a ELSE b

\* str.strip()
strip(s) ==
  LET keep == {i \in 1..Len(s) : s[i] # " "} IN
  IF keep = {} THEN <<>>
  ELSE SubSeq(s, CHOOSE i \in keep : \A j \in keep : i <= j,
                 CHOOSE i \in keep : \A j \in keep : i >= j)

maxlen == 255
\* s[:maxlen]
truncate(s) == SubSeq(s, 1, Min(Len(s), maxlen))

\* str.count(c)
Count(s, c) == Cardinality({i \in 1..Len(s) : s[i] = c})

\* str.split(sep) on a one-character sep
RECURSIVE split(_, _)
split(s, sep) ==
  IF \E i \in 1..Len(s) : s[i] = sep
    THEN LET i == CHOOSE k \in 1..Len(s) : s[k] = sep /\ \A j \in 1..(k - 1) : s[j] # sep
         IN <<SubSeq(s, 1, i - 1)>> \o split(SubSeq(s, i + 1, Len(s)), sep)
    ELSE <<s>>

\* sep.join(parts)
RECURSIVE join(_, _)
join(sep, parts) ==
  IF parts = <<>> THEN <<>>
  ELSE IF Len(parts) = 1 THEN parts[1]
  ELSE parts[1] \o sep \o join(sep, Tail(parts))

AllDigits(s) == s # <<>> /\ \A i \in 1..Len(s) : \E d \in 1..10 : Digits[d] = s[i]

RECURSIVE DigitsValue(_)
DigitsValue(s) ==
  IF s = <<>> THEN 0
  ELSE 10 * DigitsValue(SubSeq(s, 1, Len(s) - 1))
         + (CHOOSE d \in 1..10 : Digits[d] = s[Len(s)]) - 1

RECURSIVE Decimal(_)
Decimal(n) == IF n < 10 THEN <<Digits[n + 1]>> ELSE Decimal(n \div 10) \o <<Digits[(n % 10) + 1]>>

\* f"{n:0{w}d}" on n >= 0
ZeroPad(n, w) ==
  LET d == Decimal(n) IN
  IF Len(d) >= w THEN d ELSE [i \in 1..(w - Len(d)) |-> "0"] \o d

Threw(msg) == [ok |-> FALSE, error |-> msg]
Gave(v) == [ok |-> TRUE, val |-> v]

\* int(s) on a str: surrounding blanks and one sign are accepted
int(s) ==
  LET v == strip(s) IN
  IF AllDigits(v) THEN Gave(DigitsValue(v))
  ELSE IF v # <<>> /\ Head(v) = "-" /\ AllDigits(Tail(v)) THEN Gave(0 - DigitsValue(Tail(v)))
  ELSE IF v # <<>> /\ Head(v) = "+" /\ AllDigits(Tail(v)) THEN Gave(DigitsValue(Tail(v)))
  ELSE Threw(<<"ValueError">>)

\* str(v) of a value the tools receive
str(v) ==
  CASE v.t = "str" -> v.s
    [] v.t = "num" -> IF v.n < 0 THEN <<"-">> \o Decimal(0 - v.n) ELSE Decimal(v.n)
    [] v.t = "none" -> <<"N", "o", "n", "e">>

\* ------------------------------------------------------------------------
\* Dates
\* ------------------------------------------------------------------------
DaysIn(y, m) ==
  IF m = 2 THEN (IF y % 4 = 0 /\ (y % 100 # 0 \/ y % 400 = 0) THEN 29 ELSE 28)
  ELSE IF m \in {4, 6, 9, 11} THEN 30 ELSE 31

\* the date of three digit groups, as datetime.strptime builds it: %Y is four
\* digits, %m and %d one or two, and the day exists in the month
DateOf(ys, ms, ds) ==
  IF /\ AllDigits(ys) /\ Len(ys) = 4
     /\ AllDigits(ms) /\ Len(ms) <= 2
     /\ AllDigits(ds) /\ Len(ds) <= 2
     /\ DigitsValue(ys) >= 1
     /\ DigitsValue(ms) \in 1..12
     /\ DigitsValue(ds) \in 1..DaysIn(DigitsValue(ys), DigitsValue(ms))
    THEN Gave([y |-> DigitsValue(ys), m |-> DigitsValue(ms), d |-> DigitsValue(ds)])
    ELSE Threw(<<"ValueError">>)

\* datetime.strptime(s, "%Y-%m-%d")
strptime_ymd(s) ==
  LET p == split(s, "-") IN
  IF Len(p) = 3 THEN DateOf(p[1], p[2], p[3]) ELSE Threw(<<"ValueError">>)

\* datetime.strptime(s, "%d/%m/%Y")
strptime_dmy(s) ==
  LET p == split(s, "/") IN
  IF Len(p) = 3 THEN DateOf(p[3], p[2], p[1]) ELSE Threw(<<"ValueError">>)

\* dt.strftime("%Y-%m-%d")
strftime_ymd(dt) == ZeroPad(dt.y, 4) \o <<"-">> \o ZeroPad(dt.m, 2) \o <<"-">> \o ZeroPad(dt.d, 2)

\* parse_fecha on None or a str (timestamps depend on the local time zone and
\* are not among the inputs)
parse_fecha(value) ==
  IF value.t = "none" THEN Threw(<<"fecha requerida">>)
  ELSE LET s == strip(str(value)) IN
       IF strptime_ymd(s).ok THEN Gave(strftime_ymd(strptime_ymd(s).val))
       ELSE IF strptime_dmy(s).ok THEN Gave(strftime_ymd(strptime_dmy(s).val))
       ELSE Threw(<<"fecha invalida: usa YYYY-MM-DD, DD/MM/YYYY o timestamp">>)

\* strptime(yyyy_mm_dd, "%Y-%m-%d") and dt.strftime("%d/%m/%Y")
to_ddmmyyyy(yyyy_mm_dd) ==
  LET dt == strptime_ymd(yyyy_mm_dd).val IN
  ZeroPad(dt.d, 2) \o <<"/">> \o ZeroPad(dt.m, 2) \o <<"/">> \o ZeroPad(dt.y, 4)

\* ------------------------------------------------------------------------
\* Times
\* ------------------------------------------------------------------------
\* the match of \d+(?:[\.,]\d+)? : the digits before and after the mark
DecimalParts(v) ==
  LET marks == {i \in 1..Len(v) : v[i] \in {".", ","}} IN
  IF AllDigits(v) THEN Gave([int |-> v, frac |-> <<>>])
  ELSE IF /\ Cardinality(marks) = 1
          /\ AllDigits(SubSeq(v, 1, (CHOOSE i \in marks : TRUE) - 1))
          /\ AllDigits(SubSeq(v, (CHOOSE i \in marks : TRUE) + 1, Len(v)))
    THEN Gave([int |-> SubSeq(v, 1, (CHOOSE i \in marks : TRUE) - 1),
               frac |-> SubSeq(v, (CHOOSE i \in marks : TRUE) + 1, Len(v))])
    ELSE Threw(<<"no match">>)

RECURSIVE Pow10(_)
Pow10(k) == IF k = 0 THEN 1 ELSE 10 * Pow10(k - 1)

\* int(round(hours * 60)) for hours = int.frac, halves to the even minute
MinutesOfHours(p) ==
  LET den == Pow10(Len(p.frac))
      num == (DigitsValue(p.int) * den + DigitsValue(p.frac)) * 60
      q == num \div den
      r == num % den
  IN IF 2 * r > den \/ (2 * r = den /\ q % 2 = 1) THEN q + 1 ELSE q

\* the match of \s*\d+(?:[\.,]\d+)?\s*(h|hs)\s* ignoring case
HoursSuffix(value) ==
  LET v == strip(value)
      n == Len(v)
      cut == IF n >= 2 /\ v[n] \in {"s", "S"} /\ v[n - 1] \in {"h", "H"} THEN n - 2
             ELSE IF n >= 1 /\ v[n] \in {"h", "H"} THEN n - 1
             ELSE 0 - 1
  IN IF cut < 0 THEN Threw(<<"no match">>)
     ELSE LET body == SubSeq(v, 1, cut) IN
          IF body # <<>> THEN DecimalParts(strip(body))
          ELSE Threw(<<"no match">>)

Positive(total) == IF total <= 0 THEN Threw(<<"tiempo debe ser > 0">>) ELSE Gave(total)
InvalidTime == Threw(<<"tiempo invalido: usa HH:MM, minutos, o horas decimales (e.g., 1.5h)">>)

\* parse_tiempo on None, a str or an int
parse_tiempo(value) ==
  IF value.t = "none" THEN Threw(<<"tiempo requerido">>)
  ELSE IF value.t = "str" /\ Count(value.s, ":") > 0 THEN
    LET parts == split(value.s, ":") IN
    IF Len(parts) # 2 THEN Threw(<<"formato de tiempo invalido">>)
    ELSE IF ~int(parts[1]).ok \/ ~int(parts[2]).ok THEN Threw(<<"formato de tiempo invalido">>)
    ELSE LET h == int(parts[1]).val
             m == int(parts[2]).val
         IN IF h < 0 \/ m < 0 \/ m >= 60 THEN Threw(<<"formato de tiempo invalido">>)
            ELSE Positive(h * 60 + m)
  ELSE IF value.t = "str" /\ HoursSuffix(value.s).ok THEN
    Positive(MinutesOfHours(HoursSuffix(value.s).val))
  ELSE IF value.t = "str" THEN
    LET v == strip(value.s) IN
    IF AllDigits(v) THEN (IF DigitsValue(v) <= 0 THEN InvalidTime ELSE Gave(DigitsValue(v)))
    ELSE IF DecimalParts(v).ok
      THEN (IF MinutesOfHours(DecimalParts(v).val) <= 0 THEN InvalidTime
            ELSE Gave(MinutesOfHours(DecimalParts(v).val)))
    ELSE InvalidTime
  ELSE IF value.n <= 0 THEN InvalidTime
  ELSE Gave(value.n)

\* to_hhmm on mins >= 0
to_hhmm(mins) == ZeroPad(mins \div 60, 2) \o <<":">> \o ZeroPad(mins % 60, 2)

\* ------------------------------------------------------------------------
\* The timesheets table and its operations (src/server/db_utils.py)
\* ------------------------------------------------------------------------
required_fields == <<"legajo_personal", "fecha", "cliente", "contrato_division",
                     "contrato_tipo", "contrato_numero", "tarea", "tiempo">>
RequiredText == {"legajo_personal", "cliente", "contrato_division", "contrato_tipo",
                 "contrato_numero", "tarea"}
simple_fields == {"nombre_personal", "legajo_personal", "cliente", "nombre_cliente",
                  "contrato_division", "nombre_division", "contrato_tipo",
                  "nombre_tipo", "contrato_numero", "nombre_contrato", "tarea",
                  "nombre_tarea", "observaciones", "categoria"}
\* the columns in the order of the INSERT and of the export
Columns == <<"nombre_personal", "legajo_personal", "fecha", "cliente",
             "nombre_cliente", "contrato_division", "nombre_division",
             "contrato_tipo", "nombre_tipo", "contrato_numero", "nombre_contrato",
             "tarea", "nombre_tarea", "tiempo_minutos", "observaciones",
             "categoria">>
Range(q) == {q[i] : i \in DOMAIN q}

\* isinstance(v, str) and v.strip() == ""
BlankStr(v) == v.t = "str" /\ strip(v.s) = <<>>

\* the required-field loop of insert_timesheet: the fields it rejects, in order
MissingFieldsIgnoringBlanks(payload) ==
  SelectSeq(required_fields, LAMBDA f : f \notin DOMAIN payload)

MissingFields(payload) ==
  SelectSeq(required_fields,
            LAMBDA f : f \notin DOMAIN payload \/ BlankStr(payload[f]))

\* norm(k) and _truncate(str(payload.get(k)))
norm(v) == IF v.t = "none" THEN PyNone ELSE PyStr(truncate(str(v)))

\* insert_timesheet up to the INSERT: the row to store, or the exception
insert_timesheet(payload) ==
  IF MissingFields(payload) # <<>>
    THEN Threw(<<"Campo obligatorio faltante", Head(MissingFields(payload))>>)
  ELSE IF ~parse_fecha(payload["fecha"]).ok THEN parse_fecha(payload["fecha"])
  ELSE IF ~parse_tiempo(payload["tiempo"]).ok THEN parse_tiempo(payload["tiempo"])
  ELSE Gave([k \in Range(Columns) |->
               CASE k = "fecha" -> PyStr(parse_fecha(payload["fecha"]).val)
                 [] k = "tiempo_minutos" -> PyNum(parse_tiempo(payload["tiempo"]).val)
                 [] k \in RequiredText -> PyStr(truncate(str(payload[k])))
                 [] OTHER -> norm(payload[k])])

WithId(row, id) == [k \in DOMAIN row \cup {"id"} |-> IF k = "id" THEN PyNum(id) ELSE row[k]]

\* SELECT * FROM timesheets WHERE id = ?
get_timesheet(rows, ts_id) ==
  LET found == SelectSeq(rows, LAMBDA r : r["id"].n = ts_id) IN
  IF found = <<>> THEN PyNone ELSE found[1]

\* the validation of the resulting row in update_timesheet, tiempo only
InvalidTimeOnly(resulting) ==
  IF resulting["tiempo_minutos"].t = "none" \/ resulting["tiempo_minutos"].n <= 0
    THEN <<"tiempo">>
    ELSE <<>>

\* the validation of the resulting row in update_timesheet: the fields it
\* rejects, in the order of _required_fields_list
Invalid(resulting) ==
  SelectSeq(<<"legajo_personal", "fecha", "cliente", "contrato_division",
              "contrato_tipo", "contrato_numero", "tarea">>,
            LAMBDA f : resulting[f].t = "none" \/ BlankStr(resulting[f]))
  \o (IF resulting["tiempo_minutos"].t = "none" \/ resulting["tiempo_minutos"].n <= 0
        THEN <<"tiempo">>
        ELSE <<>>)

GivenFecha(payload) ==
  "fecha" \in DOMAIN payload /\ payload["fecha"].t # "none" /\ strip(str(payload["fecha"])) # <<>>
GivenTiempo(payload) ==
  "tiempo" \in DOMAIN payload /\ payload["tiempo"] \notin {PyNone, PyStr(<<>>)}
GivenMinutos(payload) ==
  ~GivenTiempo(payload) /\ "tiempo_minutos" \in DOMAIN payload
    /\ payload["tiempo_minutos"].t # "none"

\* the updates dict of update_timesheet, once fecha and tiempo have parsed
Updates(payload) ==
  [k \in {f \in simple_fields : f \in DOMAIN payload}
         \cup (IF GivenFecha(payload) THEN {"fecha"} ELSE {})
         \cup (IF GivenTiempo(payload) \/ GivenMinutos(payload)
                 THEN {"tiempo_minutos"} ELSE {}) |->
     CASE k = "fecha" -> PyStr(parse_fecha(payload["fecha"]).val)
       [] k = "tiempo_minutos" ->
            IF GivenTiempo(payload) THEN PyNum(parse_tiempo(payload["tiempo"]).val)
            ELSE payload["tiempo_minutos"]
       [] OTHER -> norm(payload[k])]

\* update_timesheet up to the UPDATE: the row to return and whether it is
\* written, or the exception
update_timesheet(rows, ts_id, payload) ==
  LET base == get_timesheet(rows, ts_id) IN
  IF base = PyNone THEN Threw(<<"timesheet no encontrado">>)
  ELSE IF GivenFecha(payload) /\ ~parse_fecha(payload["fecha"]).ok
    THEN parse_fecha(payload["fecha"])
  ELSE IF GivenTiempo(payload) /\ ~parse_tiempo(payload["tiempo"]).ok
    THEN parse_tiempo(payload["tiempo"])
  ELSE IF GivenMinutos(payload) /\ payload["tiempo_minutos"].n <= 0
    THEN Threw(<<"tiempo_minutos debe ser > 0">>)
  ELSE LET updates == Updates(payload)
           resulting == [k \in DOMAIN base |->
                           IF k \in DOMAIN updates THEN updates[k] ELSE base[k]]
       IN IF Invalid(resulting) # <<>>
            THEN Threw(<<"Campo obligatorio faltante", Head(Invalid(resulting))>>)
            ELSE Gave(resulting)

\* the order of two characters in a TEXT comparison
CharOrder == <<" ", "+", ",", "-", ".", "/", "0", "1", "2", "3", "4", "5", "6", "7",
               "8", "9", ":", ";", "H", "N", "S", "a", "b", "c", "d", "e", "h", "k",
               "n", "o", "s", "t", "x">>

RECURSIVE TextLess(_, _)
TextLess(a, b) ==
  IF b = <<>> THEN FALSE
  ELSE IF a = <<>> THEN TRUE
  ELSE IF Head(a) # Head(b)
    THEN (CHOOSE i \in DOMAIN CharOrder : CharOrder[i] = Head(a))
           < (CHOOSE i \in DOMAIN CharOrder : CharOrder[i] = Head(b))
  ELSE TextLess(Tail(a), Tail(b))

\* ORDER BY fecha ASC, id ASC
RECURSIVE OrderByFechaId(_)
OrderByFechaId(rows) ==
  IF rows = <<>> THEN <<>>
  ELSE LET i == CHOOSE k \in DOMAIN rows : \A j \in DOMAIN rows \ {k} :
                  \/ TextLess(rows[k]["fecha"].s, rows[j]["fecha"].s)
                  \/ /\ rows[k]["fecha"].s = rows[j]["fecha"].s
                     /\ rows[k]["id"].n < rows[j]["id"].n
       IN <<rows[i]>> \o OrderByFechaId(SelectSeq(rows, LAMBDA r : r # rows[i]))

Given(v) == v.t # "none" /\ v # PyStr(<<>>)
DefaultLimit == 1000

\* list_timesheets
list_timesheets(rows, date_from, date_to, legajo, limit, offset) ==
  IF Given(date_from) /\ ~parse_fecha(date_from).ok THEN parse_fecha(date_from)
  ELSE IF Given(date_to) /\ ~parse_fecha(date_to).ok THEN parse_fecha(date_to)
  ELSE LET selected ==
             SelectSeq(rows, LAMBDA r :
               /\ Given(legajo) => r["legajo_personal"].s = str(legajo)
               /\ Given(date_from) => ~TextLess(r["fecha"].s, parse_fecha(date_from).val)
               /\ Given(date_to) => ~TextLess(parse_fecha(date_to).val, r["fecha"].s))
           lim == IF limit <= 0 THEN DefaultLimit ELSE limit
           off == IF offset < 0 THEN 0 ELSE offset
           ordered == OrderByFechaId(selected)
       IN Gave([rows |-> SubSeq(ordered, off + 1, Min(Len(ordered), off + lim)),
                count |-> Len(selected)])

\* r.get(k) or ""
OrEmpty(v) == IF v.t = "none" THEN <<>> ELSE v.s

\* _pf_header_lines: ten lines, of which only the record type is kept
pf_header_lines == [i \in 1..10 |-> IF i = 10 THEN <<"T", ";">> ELSE <<"#", ";">>]

\* one data line of export_timesheets_csv
DataLine(r) ==
  <<"D", ";">> \o
  join(<<";">>,
       [i \in DOMAIN Columns |->
          CASE Columns[i] = "fecha" -> to_ddmmyyyy(r["fecha"].s)
            [] Columns[i] = "tiempo_minutos" -> to_hhmm(r["tiempo_minutos"].n)
            [] OTHER -> OrEmpty(r[Columns[i]])])

\* export_timesheets_csv: content and count
export_timesheets_csv(rows, date_from, date_to, legajo) ==
  LET result == list_timesheets(rows, date_from, date_to, legajo, 0 - 1, 0) IN
  IF ~result.ok THEN result
  ELSE LET out_lines == pf_header_lines \o
                          [i \in DOMAIN result.val.rows |-> DataLine(result.val.rows[i])]
       IN Gave([content |-> join(<<"\n">>, out_lines) \o <<"\n">>,
                count |-> Len(result.val.rows)])

\* ------------------------------------------------------------------------
\* State
\* ------------------------------------------------------------------------
VARIABLES
  pc,             \* "start": run_agent called; "input": at input(); "plan": at the
                  \* top of a for iteration; "exited": run_agent returned;
                  \* "crashed": an exception left it
  tools_by_name,  \* the catalog
  messages,       \* the transcript of the current instruction
  step,           \* the for variable
  printed,        \* the last line the current instruction printed to the user
  exc,            \* the exception that left run_agent
  oracle_calls,   \* history: calls of llm.complete_json in this instruction
  script,         \* history: the completions received in this instruction
  calls,          \* history: the calls of session.call_tool in this instruction
  fetches,        \* history: the calls of session.list_tools in this session
  earlier,        \* history: an earlier instruction of this session invoked a tool
  table,          \* the rows of the timesheets table, in the order of their ids
  seq,            \* the last id AUTOINCREMENT gave
  last,           \* history: the last tool call of the server and what it returned
  probe           \* a string given to parse_json_object on its own, and the result

vars == <<pc, tools_by_name, messages, step, printed, exc, oracle_calls, script,
          calls, fetches, earlier, probe, table, seq, last>>
db_vars == <<table, seq, last>>
loop_vars == <<pc, tools_by_name, messages, step, printed, exc, oracle_calls,
               script, calls, fetches, earlier>>

Nothing == [text |-> "", arg |-> ""]
Say(text, arg) == [text |-> text, arg |-> arg]

MsgParseError == "Error parseando JSON del modelo"
MsgUnknownTool == "Tool desconocida"
MsgFinal == "Respuesta final:"
MsgUnknownAction == "Accion desconocida"
MsgMaxSteps == "Se alcanzo el maximo de pasos sin respuesta final."
NoContent == "(sin contenido)"

\* the first message of an instruction: framing, catalog and instruction
Seed(user_text) ==
  [role |-> "user",
   content |-> [framing |-> "timesheets", tools |-> DOMAIN tools_by_name,
                instruction |-> user_text]]

NoProbe == [pre |-> <<>>, json |-> <<>>, post |-> <<>>, phase |-> "idle",
            out |-> Raised]

\* what session.list_tools returns, keyed by name
Catalog == [n \in ToolNames |-> [name |-> n]]
NoCatalog == [n \in {} |-> [name |-> n]]

InitLoop ==
  /\ pc = "start"
  /\ tools_by_name = NoCatalog
  /\ fetches = 0
  /\ earlier = FALSE
  /\ messages = <<>>
  /\ step = 0
  /\ printed = Nothing
  /\ exc = "none"
  /\ oracle_calls = 0
  /\ script = <<>>
  /\ calls = <<>>

\* an empty database on which no tool has been called
NoRows ==
  /\ table = <<>>
  /\ seq = 0
  /\ last = [op |-> "none", args |-> <<>>, result |-> <<>>]

Init == InitLoop /\ probe = NoProbe /\ NoRows

\* res = await session.list_tools() and the loop that fills tools_by_name
Startup ==
  /\ pc = "start"
  /\ pc' = "input"
  /\ tools_by_name' = Catalog
  /\ fetches' = fetches + 1
  /\ UNCHANGED <<messages, step, printed, exc, oracle_calls, script, calls,
                 earlier, probe, db_vars>>

\* session.list_tools() raises
ListToolsRaises ==
  /\ pc = "start"
  /\ pc' = "crashed"
  /\ exc' = "CatalogError"
  /\ fetches' = fetches + 1
  /\ UNCHANGED <<tools_by_name, messages, step, printed, oracle_calls, script,
                 calls, earlier, probe, db_vars>>

\* an instruction that goes on with the transcript of the one before (not
\* what the code does)
StartInstructionKeepingTranscript(user_text) ==
  /\ pc' = "plan"
  /\ messages' = Append(messages, Seed(user_text))
  /\ step' = 0
  /\ printed' = Nothing
  /\ oracle_calls' = 0
  /\ script' = <<>>
  /\ calls' = <<>>
  /\ earlier' = (earlier \/ calls # <<>>)
  /\ UNCHANGED <<tools_by_name, exc, fetches, probe, db_vars>>

\* an instruction that lists the tools again (not what the code does)
StartInstructionRefetching(user_text) ==
  /\ pc' = "plan"
  /\ messages' = <<Seed(user_text)>>
  /\ step' = 0
  /\ printed' = Nothing
  /\ oracle_calls' = 0
  /\ script' = <<>>
  /\ calls' = <<>>
  /\ earlier' = (earlier \/ calls # <<>>)
  /\ tools_by_name' = Catalog
  /\ fetches' = fetches + 1
  /\ UNCHANGED <<exc, probe, db_vars>>

\* messages = [], the first message and the entry into the for loop
StartInstruction(user_text) ==
  /\ pc' = "plan"
  /\ messages' = <<Seed(user_text)>>
  /\ step' = 0
  /\ printed' = Nothing
  /\ oracle_calls' = 0
  /\ script' = <<>>
  /\ calls' = <<>>
  /\ earlier' = (earlier \/ calls # <<>>)
  /\ UNCHANGED <<tools_by_name, exc, fetches, probe, db_vars>>

\* the body of `while True` up to the for loop; run_agent's locals end with it
\* on an exit word
ReadInput ==
  /\ pc = "input"
  /\ \E line \in Inputs :
       LET user_text == Strip(line) IN
       IF user_text = "" THEN UNCHANGED vars
       ELSE IF Lower(user_text) \in ExitWords THEN
         /\ pc' = "exited"
         /\ messages' = <<>>
         /\ step' = 0
         /\ printed' = Nothing
         /\ oracle_calls' = 0
         /\ script' = <<>>
         /\ calls' = <<>>
         /\ earlier' = FALSE
         /\ UNCHANGED <<tools_by_name, exc, fetches, probe, db_vars>>
       ELSE StartInstruction(user_text)

\* break: the instruction ends having printed p
Break(p) ==
  /\ pc' = "input"
  /\ printed' = p
  /\ UNCHANGED <<tools_by_name, messages, step, exc, calls, fetches, earlier, probe, db_vars>>

\* an exception nothing catches leaves run_agent and main
Uncaught(e) ==
  /\ pc' = "crashed"
  /\ exc' = e
  /\ UNCHANGED <<tools_by_name, messages, step, printed, calls, fetches, earlier,
                 probe, db_vars>>

\* raw = llm.complete_json(messages) returned
Completed(raw) ==
  /\ oracle_calls' = oracle_calls + 1
  /\ script' = Append(script, raw)

\* llm.complete_json(messages) raises
OracleRaises ==
  /\ pc = "plan"
  /\ oracle_calls' = oracle_calls + 1
  /\ script' = script
  /\ Uncaught("OracleError")

\* parse_json_object(raw) raises
ParseFails ==
  /\ pc = "plan"
  /\ \E raw \in Completions :
       /\ Parsed[raw].raised
       /\ Completed(raw)
       /\ Break(Say(MsgParseError, ""))

\* obj.get on a value that is not a dict
NotADict ==
  /\ pc = "plan"
  /\ \E raw \in Completions :
       LET p == Parsed[raw] IN
       /\ ~p.raised
       /\ p.val.t # "dict"
       /\ Completed(raw)
       /\ Uncaught("AttributeError")

\* str(obj.get("action", "")).lower()
ActionOf(obj) == Lower(PyStrOf(Get(obj, "action", PyStr(""))))

\* raw parses to a dict whose action is a
Dict(raw, a) ==
  LET p == Parsed[raw] IN
  /\ ~p.raised
  /\ p.val.t = "dict"
  /\ ActionOf(p.val) = a

ObjOf(raw) == Parsed[raw].val

\* the last branch: neither "tool" nor "final"
UnknownAction ==
  /\ pc = "plan"
  /\ \E raw \in Completions :
       /\ ~Parsed[raw].raised
       /\ ObjOf(raw).t = "dict"
       /\ ActionOf(ObjOf(raw)) \notin {"tool", "final"}
       /\ Completed(raw)
       /\ Break(Say(MsgUnknownAction, ActionOf(ObjOf(raw))))

\* a final action after which the loop goes on (not what the code does)
FinalContinues ==
  /\ pc = "plan"
  /\ \E raw \in Completions :
       /\ Dict(raw, "final")
       /\ Completed(raw)
       /\ LET content == PyOr(Get(ObjOf(raw), "content", PyNone), PyStr(NoContent))
          IN /\ printed' = Say(MsgFinal, PyStrOf(content))
             /\ pc' = "plan"
             /\ UNCHANGED <<tools_by_name, messages, step, exc, calls, fetches,
                            earlier, probe, db_vars>>

\* a final action shown under its heading only (not what the code does)
FinalWithoutContent ==
  /\ pc = "plan"
  /\ \E raw \in Completions :
       /\ Dict(raw, "final")
       /\ Completed(raw)
       /\ Break(Say(MsgFinal, ""))

\* action == "final"
Final ==
  /\ pc = "plan"
  /\ \E raw \in Completions :
       /\ Dict(raw, "final")
       /\ Completed(raw)
       /\ LET content == PyOr(Get(ObjOf(raw), "content", PyNone), PyStr(NoContent))
          IN Break(Say(MsgFinal, PyStrOf(content)))

\* a lookup that ignores case (not what the code does)
KnownToolIgnoringCase(tool_name) ==
  /\ tool_name.t = "str"
  /\ \E n \in DOMAIN tools_by_name : Lower(n) = Lower(tool_name.s)

\* tool_name not in tools_by_name, on a hashable tool_name
KnownTool(tool_name) == tool_name.t = "str" /\ tool_name.s \in DOMAIN tools_by_name

UnknownTool ==
  /\ pc = "plan"
  /\ \E raw \in Completions :
       /\ Dict(raw, "tool")
       /\ LET tool_name == Get(ObjOf(raw), "tool_name", PyNone) IN
          /\ Hashable(tool_name)
          /\ ~KnownTool(tool_name)
          /\ Completed(raw)
          /\ Break(Say(MsgUnknownTool, PyStrOf(tool_name)))

\* tool_name not in tools_by_name, on a list or a dict
UnhashableToolName ==
  /\ pc = "plan"
  /\ \E raw \in Completions :
       /\ Dict(raw, "tool")
       /\ ~Hashable(Get(ObjOf(raw), "tool_name", PyNone))
       /\ Completed(raw)
       /\ Uncaught("TypeError")

\* one content part reduced to its value
PartValue(c) ==
  IF c.type = "json" THEN c.data
  ELSE IF c.type = "text" THEN c.text
  ELSE IF c.text # "none" THEN c.text
  ELSE IF c.data # "none" THEN c.data
  ELSE "str(c)"

\* a rendering that never unwraps (not what the code does)
RenderWithoutUnwrapping(content) ==
  PyList([i \in 1..Len(content) |-> PyStr(PartValue(content[i]))])

\* the rendered result of a call that returned
Render(content) ==
  LET rendered == [i \in 1..Len(content) |-> PyStr(PartValue(content[i]))] IN
  IF Len(rendered) = 1 THEN rendered[1] ELSE PyList(rendered)

\* a rendering that drops str(e) (not what the code does)
RenderedWithoutMessage(outcome) ==
  IF outcome.ok THEN Render(outcome.content)
  ELSE PyDict([error |-> PyStr("")])

\* the rendered result of a call
Rendered(outcome) ==
  IF outcome.ok THEN Render(outcome.content)
  ELSE PyDict([error |-> PyStr(outcome.msg)])

\* a loop of one iteration too many (not what the code does)
ContinueOffByOne ==
  IF step + 1 < MaxSteps + 1
    THEN /\ step' = step + 1
         /\ pc' = "plan"
         /\ UNCHANGED printed
    ELSE /\ step' = step
         /\ pc' = "input"
         /\ printed' = Say(MsgMaxSteps, "")

\* a for loop without its else branch (not what the code does)
ContinueSilent ==
  IF step + 1 < MaxSteps
    THEN /\ step' = step + 1
         /\ pc' = "plan"
         /\ UNCHANGED printed
    ELSE /\ step' = step
         /\ pc' = "input"
         /\ UNCHANGED printed

\* a loop that gives up one iteration early (not what the code does)
ContinueGivingUpEarly ==
  IF step + 2 < MaxSteps
    THEN /\ step' = step + 1
         /\ pc' = "plan"
         /\ UNCHANGED printed
    ELSE /\ step' = step
         /\ pc' = "input"
         /\ printed' = Say(MsgMaxSteps, "")

\* continue: the next iteration, or the else branch of the for loop
Continue ==
  IF step + 1 < MaxSteps
    THEN /\ step' = step + 1
         /\ pc' = "plan"
         /\ UNCHANGED printed
    ELSE /\ step' = step
         /\ pc' = "input"
         /\ printed' = Say(MsgMaxSteps, "")

\* the observation ahead of the action it answers (not what the code does)
AppendedObservationFirst(tool_name, arguments, rendered) ==
  <<[role |-> "user",
     content |-> [result_of |-> tool_name, rendered |-> rendered]],
    [role |-> "assistant",
     content |-> [action |-> "tool", tool_name |-> tool_name, arguments |-> arguments]]>>

\* the two messages an invocation appends
Appended(tool_name, arguments, rendered) ==
  <<[role |-> "assistant",
     content |-> [action |-> "tool", tool_name |-> tool_name, arguments |-> arguments]],
    [role |-> "user",
     content |-> [result_of |-> tool_name, rendered |-> rendered]]>>

\* an invocation recorded ahead of the earlier ones (not what the code does)
InvokeReordered(raw, outcome) ==
  LET obj == ObjOf(raw)
      tool_name == Get(obj, "tool_name", PyNone)
      arguments == PyOr(Get(obj, "arguments", PyNone), PyDict(EmptyMap))
  IN /\ Completed(raw)
     /\ calls' = <<[name |-> tool_name.s, arguments |-> arguments,
                   outcome |-> outcome]>> \o calls
     /\ messages' = messages \o Appended(tool_name.s, arguments, Rendered(outcome))
     /\ Continue
     /\ UNCHANGED <<tools_by_name, exc, fetches, earlier, probe, db_vars>>

\* an invocation that always sends {} (not what the code does)
InvokeWithoutArguments(raw, outcome) ==
  LET obj == ObjOf(raw)
      tool_name == Get(obj, "tool_name", PyNone)
      arguments == PyDict(EmptyMap)
  IN /\ Completed(raw)
     /\ calls' = Append(calls, [name |-> tool_name.s, arguments |-> arguments,
                                outcome |-> outcome])
     /\ messages' = messages \o Appended(tool_name.s, arguments, Rendered(outcome))
     /\ Continue
     /\ UNCHANGED <<tools_by_name, exc, fetches, earlier, probe, db_vars>>

\* an invocation whose observation is not in the transcript when the oracle
\* is asked again (not what the code does)
InvokeWithoutObservation(raw, outcome) ==
  LET obj == ObjOf(raw)
      tool_name == Get(obj, "tool_name", PyNone)
      arguments == PyOr(Get(obj, "arguments", PyNone), PyDict(EmptyMap))
  IN /\ Completed(raw)
     /\ calls' = Append(calls, [name |-> tool_name.s, arguments |-> arguments,
                                outcome |-> outcome])
     /\ messages' = messages \o
                       SubSeq(Appended(tool_name.s, arguments, Rendered(outcome)), 1, 1)
     /\ Continue
     /\ UNCHANGED <<tools_by_name, exc, fetches, earlier, probe, db_vars>>

\* action == "tool" on a catalog name: the call, the rendering and the two
\* messages
Invoke(raw, outcome) ==
  LET obj == ObjOf(raw)
      tool_name == Get(obj, "tool_name", PyNone)
      arguments == PyOr(Get(obj, "arguments", PyNone), PyDict(EmptyMap))
  IN /\ Completed(raw)
     /\ calls' = Append(calls, [name |-> tool_name.s, arguments |-> arguments,
                                outcome |-> outcome])
     /\ messages' = messages \o Appended(tool_name.s, arguments, Rendered(outcome))
     /\ Continue
     /\ UNCHANGED <<tools_by_name, exc, fetches, earlier, probe, db_vars>>

\* the two remote operations: A always returns, with any number of parts; B
\* returns one part or raises
Answers(raw, outcome) ==
  IF Get(ObjOf(raw), "tool_name", PyNone) = PyStr("A") THEN outcome.ok
  ELSE ~outcome.ok \/ Len(outcome.content) = 1

CallToolReturns ==
  /\ pc = "plan"
  /\ \E raw \in Completions, outcome \in Outcomes :
       /\ Dict(raw, "tool")
       /\ KnownTool(Get(ObjOf(raw), "tool_name", PyNone))
       /\ Answers(raw, outcome)
       /\ outcome.ok
       /\ Invoke(raw, outcome)

CallToolRaises ==
  /\ pc = "plan"
  /\ \E raw \in Completions, outcome \in Outcomes :
       /\ Dict(raw, "tool")
       /\ KnownTool(Get(ObjOf(raw), "tool_name", PyNone))
       /\ Answers(raw, outcome)
       /\ ~outcome.ok
       /\ Invoke(raw, outcome)

Next ==
  \/ Startup
  \/ ListToolsRaises
  \/ ReadInput
  \/ OracleRaises
  \/ ParseFails
  \/ NotADict
  \/ UnknownAction
  \/ Final
  \/ UnknownTool
  \/ UnhashableToolName
  \/ CallToolReturns
  \/ CallToolRaises

Spec == Init /\ [][Next]_vars

\* ------------------------------------------------------------------------
\* parse_json_object on its own: the string pre + json + post
\* ------------------------------------------------------------------------
MaxWrap == 2

WrapTokens == {"w", " ", "{", "}", "[", "]", "1"}
PlainToolB == <<"{", "action", ":", "tool", ",", "tool_name", ":", "B", "}">>
ProbeObjects == {<<>>, RawToolA, PlainToolB}

ProbeRaw == probe.pre \o probe.json \o probe.post

InitParse ==
  /\ InitLoop
  /\ NoRows
  /\ probe \in {[pre |-> a, json |-> j, post |-> b, phase |-> "todo", out |-> Raised] :
                  a \in SeqsUpTo(WrapTokens, MaxWrap), j \in ProbeObjects,
                  b \in SeqsUpTo(WrapTokens, MaxWrap)}

Parse ==
  /\ probe.phase = "todo"
  /\ probe' = [probe EXCEPT !.phase = "done", !.out = parse_json_object(ProbeRaw)]
  /\ UNCHANGED <<loop_vars, db_vars>>

NextParse == Parse

ParseSpec == InitParse /\ [][NextParse]_vars

\* ------------------------------------------------------------------------
\* The rendering of a returned result on its own: a list of content parts
\* ------------------------------------------------------------------------
MaxContent == 3

\* one part per branch of the rendering loop
PartKinds ==
  {TextPart,
   [type |-> "json", text |-> "none", data |-> "d1"],
   [type |-> "image", text |-> "t2", data |-> "none"],
   [type |-> "image", text |-> "none", data |-> "d3"],
   [type |-> "image", text |-> "none", data |-> "none"]}

InitRender ==
  /\ InitLoop
  /\ NoRows
  /\ probe \in {[content |-> c, phase |-> "returned", out |-> PyNone] :
                  c \in SeqsUpTo(PartKinds, MaxContent)}

RenderParts ==
  /\ probe.phase = "returned"
  /\ probe' = [probe EXCEPT !.phase = "rendered", !.out = Render(probe.content)]
  /\ UNCHANGED <<loop_vars, db_vars>>

RenderSpec == InitRender /\ [][RenderParts]_vars

\* ------------------------------------------------------------------------
\* The timesheet tools of the server (src/server/server.py), called in any
\* order on one database
\* ------------------------------------------------------------------------
MaxId == 2

Fecha15 == <<"2", "0", "2", "4", "-", "0", "1", "-", "1", "5">>
\* 255 blanks and an x
LongBlank == [i \in 1..(maxlen + 1) |-> IF i <= maxlen THEN " " ELSE "x"]

\* a complete call of create_timesheet
BaseArgs ==
  [legajo_personal |-> PyStr(<<"a">>), fecha |-> PyStr(Fecha15), cliente |-> PyStr(<<"c">>),
   contrato_division |-> PyStr(<<"d">>), contrato_tipo |-> PyStr(<<"t">>),
   contrato_numero |-> PyStr(<<"7">>), tarea |-> PyStr(<<"k">>),
   tiempo |-> PyStr(<<"9", "0">>)]

With(args, k, v) == [f \in DOMAIN args \cup {k} |-> IF f = k THEN v ELSE args[f]]
Without(args, k) == [f \in DOMAIN args \ {k} |-> args[f]]


CreateMissing == {Without(BaseArgs, f) : f \in Range(required_fields)}
CreateBlank == {With(BaseArgs, f, PyStr(<<" ">>)) : f \in Range(required_fields)}
CreateUnparseable ==
  {With(BaseArgs, "fecha", v) :
     v \in {PyNone, PyStr(<<"x">>),
            PyStr(<<"2", "0", "2", "4", "-", "1", "3", "-", "0", "1">>)}}
    \cup {With(BaseArgs, "tiempo", v) :
            v \in {PyStr(<<"x">>), PyStr(<<"0">>), PyStr(<<"1", ":", "6", "0">>)}}
CreateComplete ==
  {BaseArgs,
   With(BaseArgs, "legajo_personal", PyStr(LongBlank)),
   With(BaseArgs, "observaciones", PyStr(<<"a", ";", "b">>)),
   With(BaseArgs, "fecha", PyStr(<<" ", "1", "5", "/", "1", "/", "2", "0", "2", "4">>)),
   With(BaseArgs, "tiempo", PyStr(<<"1", ".", "5", "h">>)),
   With(BaseArgs, "tiempo", PyStr(<<"1", "0", "0", "h">>))}
CreateArgs == CreateMissing \cup CreateBlank \cup CreateUnparseable \cup CreateComplete

NoArgs == [f \in {} |-> PyNone]
UpdateBlank ==
  {With(NoArgs, "cliente", PyStr(<<" ">>)), With(NoArgs, "legajo_personal", PyStr(<<>>)),
   With(NoArgs, "legajo_personal", PyStr(LongBlank))}
UpdateNonPositive ==
  {With(NoArgs, "tiempo", PyStr(<<"0">>)), With(NoArgs, "tiempo_minutos", PyNum(0))}
UpdateOther ==
  {NoArgs, With(NoArgs, "fecha", PyStr(<<>>)),
   With(With(NoArgs, "tiempo", PyStr(<<"1", "0", "0", ":", "0", "0">>)),
        "observaciones", PyStr(<<"a", "\n", "b">>))}
UpdateArgs == UpdateBlank \cup UpdateNonPositive \cup UpdateOther
Ids == 1..(MaxId + 1)

ExportArgs ==
  {[date_from |-> PyNone, date_to |-> PyNone, legajo |-> PyNone],
   [date_from |-> PyStr(Fecha15), date_to |-> PyStr(Fecha15), legajo |-> PyStr(<<"a">>)],
   [date_from |-> PyStr(<<"x">>), date_to |-> PyNone, legajo |-> PyNone]}

\* the payload create_timesheet builds from its parameters and their defaults
CreatePayload(args) ==
  [k \in (Range(Columns) \ {"tiempo_minutos"}) \cup {"tiempo"} |->
     IF k \in DOMAIN args THEN args[k]
     ELSE IF k \in Range(required_fields) THEN PyStr(<<>>) ELSE PyNone]

\* the payload update_timesheet builds: the parameters that are not None
UpdatePayload(args) == [k \in {f \in DOMAIN args : args[f] # PyNone} |-> args[k]]

\* what insert_timesheet does with each call of create_timesheet
Inserted == [args \in CreateArgs |-> insert_timesheet(CreatePayload(args))]

Called(op, args, result) == [op |-> op, args |-> args, result |-> result]

CreateTimesheet ==
  \E args \in CreateArgs :
    LET out == Inserted[args] IN
    IF out.ok
      THEN /\ seq < MaxId
           /\ seq' = seq + 1
           /\ table' = Append(table, WithId(out.val, seq + 1))
           /\ last' = Called("create_timesheet", args,
                             [created |-> TRUE, row |-> WithId(out.val, seq + 1)])
           /\ UNCHANGED <<loop_vars, probe>>
      ELSE /\ last' = Called("create_timesheet", args,
                             [created |-> FALSE, error |-> out.error])
           /\ UNCHANGED <<table, seq, loop_vars, probe>>

UpdateTimesheet ==
  \E id \in Ids, args \in UpdateArgs :
    LET out == update_timesheet(table, id, UpdatePayload(args)) IN
    IF out.ok
      THEN /\ table' = [i \in DOMAIN table |->
                          IF table[i]["id"].n = id THEN out.val ELSE table[i]]
           /\ last' = Called("update_timesheet", [id |-> id, fields |-> args],
                             [updated |-> TRUE, row |-> out.val])
           /\ UNCHANGED <<seq, loop_vars, probe>>
      ELSE /\ last' = Called("update_timesheet", [id |-> id, fields |-> args],
                             [updated |-> FALSE, error |-> out.error])
           /\ UNCHANGED <<table, seq, loop_vars, probe>>

DeleteTimesheet ==
  \E id \in Ids :
    /\ table' = SelectSeq(table, LAMBDA r : r["id"].n # id)
    /\ last' = Called("delete_timesheet", [id |-> id],
                      [deleted |-> get_timesheet(table, id) # PyNone])
    /\ UNCHANGED <<seq, loop_vars, probe>>

ExportTimesheets ==
  \E args \in ExportArgs :
    LET out == export_timesheets_csv(table, args.date_from, args.date_to, args.legajo) IN
    /\ last' = Called("export_timesheets", args,
                      IF out.ok THEN out.val ELSE [error |-> out.error])
    /\ UNCHANGED <<table, seq, loop_vars, probe>>

NextDb ==
  \/ CreateTimesheet
  \/ UpdateTimesheet
  \/ DeleteTimesheet
  \/ ExportTimesheets

DbSpec == Init /\ [][NextDb]_vars

\* ------------------------------------------------------------------------
\* What the scripted completions say, as their author reads them
\* ------------------------------------------------------------------------
Last(q) == q[Len(q)]

ScriptedInvoke(raw) == raw \in {RawToolA, RawToolB}
ScriptedName(raw) == IF raw = RawToolA THEN "A" ELSE "B"
ScriptedFinal(raw) == raw \in {RawFinalDone, RawFinalEmpty}
ScriptedContent(raw) == IF raw = RawFinalDone THEN "done" ELSE ""
ScriptedUnknown(raw) == raw \in {RawUnknownTool, RawCloseTool}
ScriptedUnknownName(raw) == IF raw = RawUnknownTool THEN "zzz" ELSE "a"
NoJsonObject(raw) == raw \in {RawProse, RawBadBraces, RawList}
NotAnAction(raw) == raw \in Completions \ {RawToolA, RawToolB, RawFinalDone, RawFinalEmpty}

\* the current instruction is over and the session is at its prompt
AtPrompt == pc \in {"input", "exited"}
InstructionOver == AtPrompt /\ messages # <<>>
OracleAnswered == oracle_calls = Len(script)
Names(cs) == [i \in 1..Len(cs) |-> cs[i].name]
ErrorObservation(m) == PyDict([error |-> PyStr(m)])

\* ------------------------------------------------------------------------
\* C1: one instruction never takes more than 6 oracle calls nor more than 6
\* remote invocations; after the 6th call no plan/act iteration remains.
\* ------------------------------------------------------------------------
C1_StepBound ==
  /\ oracle_calls <= 6
  /\ Len(calls) <= 6
  /\ pc = "plan" => oracle_calls < 6 /\ step = oracle_calls

C1_Witness == pc = "input" /\ oracle_calls = 6 /\ Len(calls) = 6

\* ------------------------------------------------------------------------
\* C2: an oracle that answers every query with a tool action on a catalog
\* operation gets exactly 6 invocations, after which the instruction is over
\* with the step-limit message; it is not over before.
\* ------------------------------------------------------------------------
C2_AlwaysInvokeExhausts ==
  (OracleAnswered /\ \A i \in DOMAIN script : ScriptedInvoke(script[i])) =>
     /\ Len(calls) = Len(script)
     /\ Len(calls) <= 6
     /\ InstructionOver => Len(calls) = 6 /\ printed = Say(MsgMaxSteps, "")
     /\ Len(calls) = 6 => InstructionOver

C2_Witness ==
  /\ InstructionOver
  /\ \A i \in DOMAIN script : ScriptedInvoke(script[i])
  /\ Len(script) = 6
  /\ printed.text = MsgMaxSteps

\* ------------------------------------------------------------------------
\* C3: k < 6 tool actions on catalog operations followed by a final action
\* with content c give exactly those k invocations, in the oracle's order,
\* and the final answer shown is c.
\* ------------------------------------------------------------------------
C3_Script ==
  /\ Len(script) >= 1
  /\ ScriptedFinal(Last(script))
  /\ \A i \in 1..(Len(script) - 1) : ScriptedInvoke(script[i])

C3_Invocations ==
  /\ InstructionOver
  /\ Names(calls) = [i \in 1..(Len(script) - 1) |-> ScriptedName(script[i])]

\* the claim as stated: the content shown is c, whatever c is
C3_Original ==
  C3_Script => /\ C3_Invocations
               /\ printed = Say(MsgFinal, ScriptedContent(Last(script)))

\* C3 as amended: the content shown is c when c is not empty, and the
\* placeholder "(sin contenido)" when c is the empty string
C3_Amended ==
  C3_Script => /\ C3_Invocations
               /\ printed = Say(MsgFinal,
                                IF ScriptedContent(Last(script)) = "" THEN NoContent
                                ELSE ScriptedContent(Last(script)))

C3_Witness ==
  /\ script = <<RawToolA, RawToolB, RawFinalDone>>
  /\ pc = "input"
  /\ Names(calls) = <<"A", "B">>
  /\ printed = Say(MsgFinal, "done")

\* ------------------------------------------------------------------------
\* C4: a tool action on a name that is not a key of the catalog (a close
\* match included) ends the instruction with the unknown-tool message, with
\* no invocation for it and no further oracle call.
\* ------------------------------------------------------------------------
C4_UnknownOperationAborts ==
  (Len(script) >= 1 /\ ScriptedUnknown(Last(script))) =>
     /\ InstructionOver
     /\ printed = Say(MsgUnknownTool, ScriptedUnknownName(Last(script)))
     /\ Len(calls) = Len(script) - 1
     /\ \A i \in DOMAIN calls : calls[i].name \in ToolNames
     /\ oracle_calls = Len(script)

C4_Witness ==
  /\ script = <<RawCloseTool>>
  /\ pc = "input"
  /\ calls = <<>>
  /\ printed.text = MsgUnknownTool

\* ------------------------------------------------------------------------
\* C5: a remote invocation that fails with message m leaves {"error": m} as
\* the last entry of the transcript and the loop goes on to plan again.
\* ------------------------------------------------------------------------
FailedCall == Len(calls') = Len(calls) + 1 /\ ~Last(calls').outcome.ok

C5_ObservationAppended ==
  /\ Len(messages') = Len(messages) + 2
  /\ SubSeq(messages', 1, Len(messages)) = messages
  /\ Last(messages').role = "user"
  /\ Last(messages').content.rendered = ErrorObservation(Last(calls').outcome.msg)
  /\ pc' # "crashed"

\* the claim as stated: a planning step always follows
C5_Original == [][FailedCall => C5_ObservationAppended /\ pc' = "plan"]_vars

\* C5 as amended: a planning step follows unless the failed invocation was
\* the 6th of the instruction, which then ends with the step-limit message
C5_Amended ==
  [][FailedCall =>
       /\ C5_ObservationAppended
       /\ IF oracle_calls' < 6
            THEN pc' = "plan" /\ printed' = printed
            ELSE pc' = "input" /\ printed' = Say(MsgMaxSteps, "")]_vars

C5_Witness ==
  /\ pc = "plan"
  /\ calls # <<>>
  /\ ~Last(calls).outcome.ok
  /\ Last(calls).outcome.msg = "boom"
  /\ Last(messages).content.rendered = ErrorObservation("boom")

\* ------------------------------------------------------------------------
\* C6: a completion from which no action can be parsed ends the instruction
\* in that step as a malformed action: no invocation, no second query.
\* ------------------------------------------------------------------------
C6_MalformedAborts ==
  (Len(script) >= 1 /\ NoJsonObject(Last(script))) =>
     /\ InstructionOver
     /\ printed = Say(MsgParseError, "")
     /\ Len(calls) = Len(script) - 1
     /\ oracle_calls = Len(script)

\* ------------------------------------------------------------------------
\* C7: a failure of the oracle call ends the instruction only; the session
\* stays alive.
\* ------------------------------------------------------------------------
C7_OracleFailureKeepsSession == ~OracleAnswered => pc # "crashed"

\* ------------------------------------------------------------------------
\* C8: any completion that is not a valid action, and any unknown operation
\* name, ends the instruction with a diagnostic and the session goes on.
\* ------------------------------------------------------------------------
C8_InvalidActionKeepsSession ==
  (Len(script) >= 1 /\ NotAnAction(Last(script))) =>
     /\ InstructionOver
     /\ printed.text \in {MsgParseError, MsgUnknownAction, MsgUnknownTool}

\* ------------------------------------------------------------------------
\* C9: a well-formed tool action wrapped in any text before and after it
\* parses to the same action as on its own.
\* ------------------------------------------------------------------------
ExpectedAction(j) ==
  IF j = RawToolA
    THEN PyDict([action |-> PyStr("tool"), tool_name |-> PyStr("A"),
                 arguments |-> PyDict([x |-> PyNum(1)])])
    ELSE PyDict([action |-> PyStr("tool"), tool_name |-> PyStr("B")])

C9_WrappedParsesAlike ==
  (probe.phase = "done" /\ probe.json # <<>>) =>
     /\ ~probe.out.raised
     /\ probe.out.val = ExpectedAction(probe.json)

\* ------------------------------------------------------------------------
\* C10: a string with no '{' followed later by a '}' never parses: the
\* parser raises.
\* ------------------------------------------------------------------------
NoBalancedSpan(s) ==
  ~\E i \in 1..Len(s), j \in 1..Len(s) : i < j /\ s[i] = "{" /\ s[j] = "}"

C10_NoSpanRaises ==
  (probe.phase = "done" /\ NoBalancedSpan(ProbeRaw)) => probe.out.raised

\* ------------------------------------------------------------------------
\* C11: the arguments passed to an invocation are the arguments value of the
\* parsed action, as it is: nothing is coerced and nothing is defaulted.
\* ------------------------------------------------------------------------
\* the arguments value the completion carries: {"x": 1} for A, null for B
ScriptedArguments(raw) ==
  IF raw = RawToolA THEN PyDict([x |-> PyNum(1)]) ELSE PyNone

\* the claim as stated
C11_Original ==
  \A i \in DOMAIN calls :
    /\ calls[i].name = ScriptedName(script[i])
    /\ calls[i].arguments = ScriptedArguments(script[i])

\* C11 as amended: a non-empty arguments value is passed as it is; a null (or
\* absent, or empty) one is replaced by the empty mapping
C11_Amended ==
  \A i \in DOMAIN calls :
    /\ ScriptedInvoke(script[i])
    /\ calls[i].name = ScriptedName(script[i])
    /\ calls[i].arguments = IF Truthy(ScriptedArguments(script[i]))
                              THEN ScriptedArguments(script[i])
                              ELSE PyDict(EmptyMap)
    /\ messages[2 * i].content.arguments = calls[i].arguments

C11_Witness ==
  /\ script = <<RawToolB, RawToolA>>
  /\ Len(calls) = 2
  /\ calls[1].arguments = PyDict(EmptyMap)
  /\ calls[2].arguments = PyDict([x |-> PyNum(1)])

\* ------------------------------------------------------------------------
\* C12: a final action ends the instruction at once: the oracle is not asked
\* again and nothing more is invoked for that instruction.
\* ------------------------------------------------------------------------
FinalEmitted == script # <<>> /\ ScriptedFinal(Last(script))

C12_FinalConcludes ==
  /\ [](FinalEmitted =>
          /\ InstructionOver
          /\ printed.text = MsgFinal
          /\ oracle_calls = Len(script)
          /\ Len(calls) = Len(script) - 1)
  /\ [][FinalEmitted => (oracle_calls' <= oracle_calls /\ Len(calls') <= Len(calls))]_vars

C12_Witness ==
  /\ script = <<RawToolA, RawFinalDone>>
  /\ pc = "input"
  /\ oracle_calls = 2
  /\ Len(calls) = 1

\* ------------------------------------------------------------------------
\* C13: the text shown as the final answer is the content c of the final
\* action, for every string c, the empty one included.
\* ------------------------------------------------------------------------
\* the claim as stated
C13_Original == FinalEmitted => printed.arg = ScriptedContent(Last(script))

\* C13 as amended: c is shown when it is not empty; the empty string is shown
\* as the placeholder "(sin contenido)"
C13_Amended ==
  FinalEmitted =>
    /\ printed.text = MsgFinal
    /\ ScriptedContent(Last(script)) # "" => printed.arg = ScriptedContent(Last(script))
    /\ ScriptedContent(Last(script)) = "" => printed.arg = NoContent

C13_Witness ==
  /\ script # <<>>
  /\ Last(script) = RawFinalEmpty
  /\ pc = "input"
  /\ printed = Say(MsgFinal, NoContent)

\* ------------------------------------------------------------------------
\* C14: however an instruction ends, a message is shown, and the message
\* tells the reason: final answer, malformed action, unknown operation, step
\* limit, failed oracle call.
\* ------------------------------------------------------------------------
InstructionEnded == messages # <<>> /\ pc \in {"input", "crashed"}
LastIn(S) == OracleAnswered /\ script # <<>> /\ Last(script) \in S
Malformed == {RawProse, RawBadBraces, RawList, RawEmptyObject, RawDance,
              RawNoToolName, RawListToolName}

C14_EveryEndingSaysWhy ==
  InstructionEnded =>
    /\ printed # Nothing
    /\ LastIn({RawFinalDone, RawFinalEmpty}) <=> printed.text = MsgFinal
    /\ LastIn({RawUnknownTool, RawCloseTool}) <=> printed.text = MsgUnknownTool
    /\ LastIn(Malformed) <=> printed.text \in {MsgParseError, MsgUnknownAction}
    /\ (OracleAnswered /\ Len(calls) = 6) <=> printed.text = MsgMaxSteps
    /\ ~OracleAnswered =>
         printed.text \notin {MsgFinal, MsgUnknownTool, MsgParseError,
                              MsgUnknownAction, MsgMaxSteps}

\* ------------------------------------------------------------------------
\* C15: every instruction starts from the seed message of that instruction
\* alone and from step 0, whatever the earlier instructions of the session
\* did; the transcript holds the seed and the messages of this instruction's
\* invocations, nothing of an earlier one.
\* ------------------------------------------------------------------------
Instructions == {Strip(line) : line \in Inputs} \ ({""} \cup ExitWords)
InstructionStarts == pc = "input" /\ pc' = "plan"

TranscriptOfThisInstruction ==
  messages # <<>> =>
    /\ \E t \in Instructions :
         messages[1] = [role |-> "user",
                        content |-> [framing |-> "timesheets", tools |-> ToolNames,
                                     instruction |-> t]]
    /\ Len(messages) = 1 + 2 * Len(calls)
    /\ \A i \in DOMAIN calls :
         SubSeq(messages, 2 * i, 2 * i + 1) =
           Appended(calls[i].name, calls[i].arguments, Rendered(calls[i].outcome))
    /\ pc = "plan" => step = Len(calls)

C15_PerInstruction ==
  /\ []TranscriptOfThisInstruction
  /\ [][InstructionStarts => (Len(messages') = 1 /\ step' = 0 /\ oracle_calls' = 0)]_vars

C15_Witness ==
  /\ earlier
  /\ pc = "plan"
  /\ step = 0
  /\ Len(messages) = 1
  /\ messages[1].content.instruction = "i2"

\* ------------------------------------------------------------------------
\* C16: the catalog is fetched once in a session, before the first
\* instruction, and the name-to-descriptor mapping never changes afterwards.
\* ------------------------------------------------------------------------
C16_CatalogFetchedOnce ==
  /\ [](/\ pc = "start" => fetches = 0 /\ messages = <<>>
        /\ pc # "start" => fetches = 1
        /\ pc \in {"input", "plan"} => tools_by_name = Catalog)
  /\ [][pc # "start" => (tools_by_name' = tools_by_name /\ fetches' = fetches)]_vars

C16_Witness ==
  /\ earlier
  /\ pc = "input"
  /\ printed.text = MsgUnknownTool
  /\ calls # <<>>
  /\ fetches = 1
  /\ tools_by_name = Catalog

\* ------------------------------------------------------------------------
\* What a call of a server tool did, as its caller sees it
\* ------------------------------------------------------------------------
\* this step is a call of the tool op
Step(op) == last'.op = op /\ db_vars' # db_vars
NoSuchId(id) == \A i \in DOMAIN table : table[i]["id"].n # id
RowComplete(r) ==
  /\ \A f \in RequiredText \cup {"fecha"} : r[f].t = "str" /\ strip(r[f].s) # <<>>
  /\ r["tiempo_minutos"].n > 0

\* ------------------------------------------------------------------------
\* C18: create_timesheet with a required field missing or blank, or with a
\* fecha or tiempo that does not parse, returns created = false with an error
\* and stores nothing.
\* ------------------------------------------------------------------------
C18_RejectedCreateAddsNothing ==
  [][(Step("create_timesheet")
        /\ last'.args \in CreateMissing \cup CreateBlank \cup CreateUnparseable) =>
       /\ last'.result.created = FALSE
       /\ "error" \in DOMAIN last'.result
       /\ table' = table
       /\ seq' = seq]_vars

C18_Witness ==
  /\ last.op = "create_timesheet"
  /\ last.args = Without(BaseArgs, "tarea")
  /\ last.result.created = FALSE
  /\ Len(table) = 1

\* ------------------------------------------------------------------------
\* C19: update_timesheet on an id that does not exist, or leaving a required
\* field blank or tiempo non-positive, returns updated = false with an error
\* and changes no row; a successful update leaves the row with every required
\* field non-blank and tiempo_minutos > 0, and the other rows as they were.
\* ------------------------------------------------------------------------
C19_UpdateKeepsRequired ==
  [][Step("update_timesheet") =>
       /\ (NoSuchId(last'.args.id)
             \/ last'.args.fields \in UpdateBlank \cup UpdateNonPositive) =>
            last'.result.updated = FALSE
       /\ last'.result.updated = FALSE =>
            "error" \in DOMAIN last'.result /\ table' = table
       /\ last'.result.updated = TRUE =>
            /\ Len(table') = Len(table)
            /\ \A i \in DOMAIN table :
                 IF table[i]["id"].n = last'.args.id
                   THEN table'[i] = last'.result.row /\ RowComplete(table'[i])
                   ELSE table'[i] = table[i]
       /\ seq' = seq]_vars

C19_Witness ==
  /\ last.op = "update_timesheet"
  /\ last.args = [id |-> 1, fields |-> With(NoArgs, "cliente", PyStr(<<" ">>))]
  /\ last.result.updated = FALSE
  /\ Len(table) = 2
  /\ table[1]["id"].n = 1
  /\ table[1]["cliente"] = PyStr(<<"c">>)

\* ------------------------------------------------------------------------
\* C20: whatever rows create_timesheet and update_timesheet stored, every
\* data line of the export starts with "D;" and holds exactly 16 ';'.
\* ------------------------------------------------------------------------
\* content.splitlines()[10:] without the blank lines
DataLines(content) ==
  LET lines == split(content, "\n") IN
  SelectSeq(SubSeq(lines, 11, Len(lines)), LAMBDA ln : strip(ln) # <<>>)

C20_DataLinesHave16Separators ==
  (last.op = "export_timesheets" /\ "content" \in DOMAIN last.result) =>
     \A i \in DOMAIN DataLines(last.result.content) :
       LET ln == DataLines(last.result.content)[i] IN
       /\ SubSeq(ln, 1, 2) = <<"D", ";">>
       /\ Count(ln, ";") = 16
       /\ Len(split(ln, ";")) = 17

\* ------------------------------------------------------------------------
\* C21: in every data line of the export, the time column (the 15th of the
\* ';'-separated parts) is two digits, a colon and two digits, the last two
\* below 60, whatever positive tiempo the row was created or updated with.
\* ------------------------------------------------------------------------
C21_TimeColumnIsHHMM ==
  (last.op = "export_timesheets" /\ "content" \in DOMAIN last.result) =>
     \A i \in DOMAIN DataLines(last.result.content) :
       LET parts == split(DataLines(last.result.content)[i], ";") IN
       (parts[1] = <<"D">> /\ Len(parts) >= 15) =>
          LET tiempo == parts[15] IN
          /\ Len(tiempo) = 5
          /\ AllDigits(SubSeq(tiempo, 1, 2))
          /\ tiempo[3] = ":"
          /\ AllDigits(SubSeq(tiempo, 4, 5))
          /\ DigitsValue(SubSeq(tiempo, 4, 5)) < 60

\* ------------------------------------------------------------------------
\* C22: a tool action that carries no tool_name is a malformed action: the
\* instruction ends with the malformed-action diagnostic, not with the
\* unknown-operation one, and nothing is invoked for it.
\* ------------------------------------------------------------------------
C22_MissingToolNameIsMalformed ==
  LastIn({RawNoToolName}) =>
    /\ InstructionOver
    /\ printed.text \in {MsgParseError, MsgUnknownAction}
    /\ printed.text # MsgUnknownTool
    /\ Len(calls) = Len(script) - 1

\* ------------------------------------------------------------------------
\* C23: every remote invocation appends exactly two messages to the
\* transcript, first the assistant's action with the name and the arguments
\* sent, then the user's observation of that operation; the earlier messages
\* stay as they were, no other step of the instruction appends anything, and
\* after k invocations the transcript holds 1 + 2k messages.
\* ------------------------------------------------------------------------
Invoked == Len(calls') = Len(calls) + 1

C23_TwoMessagesPerInvocation ==
  [][/\ Invoked =>
          /\ Len(messages') = Len(messages) + 2
          /\ SubSeq(messages', 1, Len(messages)) = messages
          /\ messages'[Len(messages) + 1] =
                [role |-> "assistant",
                 content |-> [action |-> "tool", tool_name |-> Last(calls').name,
                              arguments |-> Last(calls').arguments]]
          /\ messages'[Len(messages) + 2].role = "user"
          /\ messages'[Len(messages) + 2].content.result_of = Last(calls').name
          /\ Len(messages') = 1 + 2 * Len(calls')
     /\ (~Invoked /\ messages # <<>> /\ messages' # <<>> /\ ~InstructionStarts) =>
          messages' = messages]_vars

C23_Witness ==
  /\ Len(calls) = 2
  /\ Len(messages) = 5
  /\ messages[4].role = "assistant"
  /\ messages[4].content.tool_name = "A"
  /\ messages[5].role = "user"
  /\ messages[5].content.result_of = "A"
  /\ messages[2].content.tool_name = "B"

\* ------------------------------------------------------------------------
\* C24: a result of n content parts is rendered as the value of its part
\* when n = 1, not as a sequence of one element, and as the sequence of the
\* n values, in the order of the parts, when n = 0 or n >= 2.
\* ------------------------------------------------------------------------
C24_SinglePartUnwrapped ==
  probe.phase = "rendered" =>
    LET n == Len(probe.content)
        values == [i \in 1..n |-> PyStr(PartValue(probe.content[i]))]
    IN IF n = 1
         THEN probe.out = values[1] /\ probe.out.t # "list"
         ELSE probe.out = PyList(values)

C24_Witness ==
  /\ probe.phase = "rendered"
  /\ Len(probe.content) = 2
  /\ probe.content[1].type = "json"
  /\ probe.content[2].type = "text"
  /\ probe.out = PyList(<<PyStr("d1"), PyStr("r1")>>)

\* ------------------------------------------------------------------------
\* C25: the loop is sequential: a step makes one oracle call and at most one
\* invocation, answering that call; oracle call k+1 is made only when the k
\* earlier invocations have completed and their messages are appended, so the
\* transcript it is given holds the seed and the k action/observation pairs
\* in order.
\* ------------------------------------------------------------------------
OracleAsked == oracle_calls' = oracle_calls + 1

C25_Sequential ==
  [][/\ OracleAsked =>
          /\ pc = "plan"
          /\ Len(calls) = oracle_calls
          /\ Len(messages) = 1 + 2 * oracle_calls
          /\ \A k \in 1..oracle_calls :
               /\ messages[2 * k].role = "assistant"
               /\ messages[2 * k].content.tool_name = calls[k].name
               /\ messages[2 * k + 1].role = "user"
               /\ messages[2 * k + 1].content =
                    [result_of |-> calls[k].name, rendered |-> Rendered(calls[k].outcome)]
     /\ Invoked => OracleAsked
     /\ oracle_calls' <= oracle_calls + 1
     /\ Len(calls') <= Len(calls) + 1]_vars

C25_Witness ==
  /\ oracle_calls = 3
  /\ Len(calls) = 2
  /\ ~calls[1].outcome.ok
  /\ calls[2].outcome.ok
  /\ Len(messages) = 5
  /\ pc = "input"
  /\ printed.text = MsgFinal

\* ------------------------------------------------------------------------
\* C26: an instruction that ends by final answer, malformed action or
\* unknown operation has made one oracle call more than invocations; one
\* that ends by the step limit has made 6 of each, and the observation of
\* its 6th invocation is in the transcript but was never given to the oracle.
\* ------------------------------------------------------------------------
EndedBy == printed.text

C26_OracleCallsPerEnding ==
  /\ [](InstructionOver =>
          /\ EndedBy \in {MsgFinal, MsgParseError, MsgUnknownAction, MsgUnknownTool,
                          MsgMaxSteps}
          /\ EndedBy # MsgMaxSteps => oracle_calls = Len(calls) + 1
          /\ EndedBy = MsgMaxSteps =>
               /\ oracle_calls = 6
               /\ Len(calls) = 6
               /\ Len(messages) = 13
               /\ messages[13].content.result_of = calls[6].name)
  /\ [][OracleAsked => Len(messages) < 13]_vars

C26_Witness ==
  /\ InstructionOver
  /\ EndedBy = MsgMaxSteps
  /\ oracle_calls = 6
  /\ Len(messages) = 13
  /\ messages[13].content.rendered = ErrorObservation("boom")

\* ------------------------------------------------------------------------
\* C27: after any sequence of create_timesheet, update_timesheet and
\* delete_timesheet calls, with any argument values, every stored row has
\* tiempo_minutos > 0 and a non-blank legajo_personal, fecha, cliente,
\* contrato_division, contrato_tipo, contrato_numero and tarea.
\* ------------------------------------------------------------------------
C27_StoredRowsComplete == \A i \in DOMAIN table : RowComplete(table[i])

\* ------------------------------------------------------------------------
\* C28: the export holds every stored row that matches its filters: the
\* number of data lines of the content and the count it returns both equal
\* the count list_timesheets reports for the same filters.
\* ------------------------------------------------------------------------
C28_ExportsEveryMatchingRow ==
  (last.op = "export_timesheets" /\ "content" \in DOMAIN last.result) =>
     LET listed == list_timesheets(table, last.args.date_from, last.args.date_to,
                                   last.args.legajo, DefaultLimit, 0).val.count
     IN /\ last.result.count = listed
        /\ Len(DataLines(last.result.content)) = listed
====
